---- MODULE Spec2Model ----
(***************************************************************************)
(* Mastersteam: one HTTP request served by httpMasterSearch / httpServer.  *)
(* The handler creates the master client, then newServerQuerier resets the *)
(* global sink (sOutputBuffer, sNumServers), builds a batch processor of   *)
(* flagJ workers whose callback queries one server and delivers one        *)
(* outcome through addJSON / addError, enumerates the master directory     *)
(* page by page (AddBatch per page), waits in Finish, closes the envelope  *)
(* and writes the buffer to the HTTP caller.                               *)
(*                                                                         *)
(* The packages batch and valve (except valve/util.go) are not part of the *)
(* sources at hand; their operations (AddBatch, the worker loop, Finish,   *)
(* Terminate, Query, NewServerQuerier, QueryInfo, QueryPlayers) follow the *)
(* written specification of those components.                              *)
(***************************************************************************)
EXTENDS Integers, Sequences, FiniteSets, TLC

VARIABLES
    proc,           \* the process: "running", "exited" (os.Exit), "panicked"
    pc,             \* position of the request handler goroutine
    master,         \* global master: "nil", "client" (made by the request) or
                    \* "client2" (made by the second request)
    sNumServers,    \* global outcome counter
    sOutputBuffer,  \* global output buffer, a sequence of written pieces
    tasks,          \* items handed to the batch processor, in submission order
    enumerated,     \* the addresses master.Query has received so far
    lastEntry,      \* the last entry of the page master.Query received last
                    \* (its cursor), <<>> before the first page and after an
                    \* empty one
    nPages,         \* number of directory pages received
    nBatches,       \* number of AddBatch calls made
    masterErr,      \* the error master.Query returned: "none", "DirectoryError"
                    \* or "callback" (an error returned by the callback)
    terminated,     \* bp.Terminate has run
    response,       \* what the HTTP caller receives
    pc2,            \* position of the handler goroutine of a second request
    response2,      \* what the caller of the second request receives
    Try,            \* valve.Try, the fault-containment policy in force
    tryLog          \* the calls of Try made so far, each with its result

vars == <<proc, pc, master, sNumServers, sOutputBuffer, tasks, enumerated,
          lastEntry, nPages, nBatches, masterErr, terminated, response,
          pc2, response2, Try, tryLog>>

----------------------------------------------------------------------------
(* Bounds of the model *)

\* most addresses enumerated in one request under Spec
MaxAddrs == 2
\* most entries of one directory page under Spec
MaxPageLen == 2
\* most directory pages of one request under Spec
MaxPages == 2
\* the player count of a server that is not empty
MaxPlayers == 1
\* addresses of the single page enumerated under SpecPool
PoolAddrs == 22
\* calls of Try made under SpecTry
MaxTryCalls == 2
\* distinct error values, and distinct values of each other type, that a
\* function handed to Try returns or panics with
MaxVals == 2

(* Program constants *)

\* flagJ := 20
flagJ == 20
\* the sentinel entry 0.0.0.0:0 that ends an enumeration
Sentinel == 0


----------------------------------------------------------------------------
(* Values *)

\* addr.String(): the "host:port" text of an address
AddrString(a) == <<"hostport", a>>

\* err.Error(): the text of an error
ErrorText(e) == <<"text", e>>

NoObj == [kind |-> "none"]

\* &ErrorObject{IP: hostAndPort, Error: err.Error()}
ErrorObject(hostAndPort, e) ==
    [kind |-> "error", ip |-> hostAndPort, error |-> ErrorText(e)]

\* info.Visibility rendered as in the callback
VisibilityString(v) == IF v = 0 THEN "public" ELSE "private"

\* out := &ServerObject{...}; PlayersOnline is filled in later
ServerObject(a, info) ==
    [kind |-> "server", ip |-> AddrString(a), players |-> info.players,
     visibility |-> VisibilityString(info.vis), roster |-> "absent"]

\* json.Marshal: fails on a roster holding a non-finite Duration
\* (encoding/json rejects NaN and Inf), succeeds on everything else
Marshal(obj) ==
    IF obj.kind = "server" /\ obj.roster = "nan"
    THEN [err |-> TRUE, buf |-> <<>>]
    ELSE [err |-> FALSE, buf |-> <<"json", obj>>]

\* replies of the environment
OpenErrs == {"NetworkError"}
InfoErrs == {"TimeoutError"}
InfoFail(e) == [ok |-> FALSE, err |-> e, players |-> 0, vis |-> 0]
InfoOK(p, v) == [ok |-> TRUE, err |-> "", players |-> p, vis |-> v]
\* QueryInfo under Spec: an error, or a public server that is empty or has
\* MaxPlayers players
InfoReplies ==
    {InfoFail(e) : e \in InfoErrs} \cup {InfoOK(p, 0) : p \in {0, MaxPlayers}}
\* QueryPlayers: an error, a roster of finite values, or a roster in which a
\* server sent a NaN duration
PlayersReplies == {"error", "finite", "nan"}

\* a task as submitted by AddBatch
NewTask(a) ==
    [addr |-> a, pc |-> "queued", obj |-> NoObj, key |-> <<>>, tmp |-> 0,
     deferClose |-> FALSE, fail |-> "none", err |-> "", info |-> "none",
     playersSeen |-> 0, visSeen |-> 0, playersFail |-> FALSE,
     nOpen |-> 0, nClose |-> 0, nInfo |-> 0, nPlayers |-> 0, nAddJSON |-> 0]

Tasks == 1..Len(tasks)

AddJSONPcs == {"aj_comma", "aj_write", "aj_inc_read", "aj_inc_write"}

\* tasks a worker has taken and not yet finished
InFlight == {t \in Tasks : tasks[t].pc \notin {"queued", "done"}}

----------------------------------------------------------------------------
(* The sink: addJSON and addError *)

\* addJSON, entry: json.Marshal(obj), panic(err) when it fails.  json.Indent
\* works on a local buffer.  The shared state is touched by the later steps.
addJSON(task, hostAndPort, obj) ==
    [task EXCEPT !.nAddJSON = @ + 1,
                 !.key = hostAndPort,
                 !.obj = obj,
                 !.pc = IF Marshal(obj).err THEN "panic" ELSE "aj_comma"]

\* addError that puts the address where the error text belongs
addError_noText(task, hostAndPort, e) ==
    addJSON(task, hostAndPort,
            [kind |-> "error", ip |-> hostAndPort, error |-> hostAndPort])

addError(task, hostAndPort, e) ==
    addJSON(task, hostAndPort, ErrorObject(hostAndPort, e))

----------------------------------------------------------------------------
(* The worker callback of newServerQuerier, between its blocking calls *)

\* a callback that opens the client and does not defer its Close
CallbackOpen_noDefer(task, res) ==
    IF res # "ok"
    THEN addError([task EXCEPT !.fail = "open", !.err = res],
                  AddrString(task.addr), res)
    ELSE [task EXCEPT !.nOpen = @ + 1, !.pc = "info"]

\* query, err := valve.NewServerQuerier(addr.String(), flagTimeout);
\* defer query.Close()
CallbackOpen(task, res) ==
    IF res # "ok"
    THEN addError([task EXCEPT !.fail = "open", !.err = res],
                  AddrString(task.addr), res)
    ELSE [task EXCEPT !.nOpen = @ + 1, !.deferClose = TRUE, !.pc = "info"]

\* a callback that returns on a QueryInfo failure without reporting it
CallbackInfo_silent(task, reply) ==
    LET q == [task EXCEPT !.nInfo = @ + 1] IN
    IF ~reply.ok
    THEN [[q EXCEPT !.fail = "info", !.err = reply.err] EXCEPT
             !.nClose = @ + 1, !.pc = "done"]
    ELSE LET out == ServerObject(task.addr, reply)
             r == [q EXCEPT !.info = "ok", !.playersSeen = reply.players,
                            !.visSeen = reply.vis]
         IN  IF reply.players > 0
             THEN [r EXCEPT !.obj = out, !.pc = "players"]
             ELSE addJSON(r, AddrString(task.addr), out)

\* a callback that asks for the players whatever the player count
CallbackInfo_alwaysPlayers(task, reply) ==
    LET q == [task EXCEPT !.nInfo = @ + 1] IN
    IF ~reply.ok
    THEN addError([q EXCEPT !.fail = "info", !.err = reply.err],
                  AddrString(task.addr), reply.err)
    ELSE LET out == ServerObject(task.addr, reply)
             r == [q EXCEPT !.info = "ok", !.playersSeen = reply.players,
                            !.visSeen = reply.vis]
         IN  IF reply.players >= 0
             THEN [r EXCEPT !.obj = out, !.pc = "players"]
             ELSE addJSON(r, AddrString(task.addr), out)

\* info, err := query.QueryInfo(); the record is built; a player query
\* follows when info.Players > 0, otherwise the record is delivered
CallbackInfo(task, reply) ==
    LET q == [task EXCEPT !.nInfo = @ + 1] IN
    IF ~reply.ok
    THEN addError([q EXCEPT !.fail = "info", !.err = reply.err],
                  AddrString(task.addr), reply.err)
    ELSE LET out == ServerObject(task.addr, reply)
             r == [q EXCEPT !.info = "ok", !.playersSeen = reply.players,
                            !.visSeen = reply.vis]
         IN  IF reply.players > 0
             THEN [r EXCEPT !.obj = out, !.pc = "players"]
             ELSE addJSON(r, AddrString(task.addr), out)

\* a callback that reports a failed player query as the address's error
CallbackPlayers_reportsError(task, reply) ==
    LET q == [task EXCEPT !.nPlayers = @ + 1,
                          !.playersFail = (reply = "error")]
        out == [task.obj EXCEPT !.roster = reply]
    IN  IF reply = "error"
        THEN addError(q, AddrString(task.addr), "TimeoutError")
        ELSE addJSON(q, AddrString(task.addr), out)

\* players, err := query.QueryPlayers(); the roster is kept or dropped and
\* the record is delivered
CallbackPlayers(task, reply) ==
    LET q == [task EXCEPT !.nPlayers = @ + 1,
                          !.playersFail = (reply = "error")]
        out == [task.obj EXCEPT !.roster =
                    IF reply = "error" THEN "absent" ELSE reply]
    IN  addJSON(q, AddrString(task.addr), out)

\* the callback returns: the deferred query.Close() runs
CallbackReturn(task) ==
    [task EXCEPT !.nClose = IF task.deferClose THEN @ + 1 ELSE @]

\* an uncaught panic unwinds the worker goroutine (deferred calls run) and
\* ends the process
Unwind(task) == [CallbackReturn(task) EXCEPT !.pc = "panic"]

\* the state change of one callback stretch that ends in newTask
Deliver(t, newTask) ==
    IF newTask.pc = "panic"
    THEN /\ tasks' = [tasks EXCEPT ![t] = Unwind(newTask)]
         /\ proc' = "panicked"
    ELSE /\ tasks' = [tasks EXCEPT ![t] = newTask]
         /\ proc' = proc

----------------------------------------------------------------------------
(* The master callback of newServerQuerier *)

\* a callback that forwards a batch without its last address
onBatch_dropsLast(servers) ==
    [add |-> SubSeq(servers, 1, Len(servers) - 1), err |-> FALSE]

\* func(servers valve.ServerList) error { bp.AddBatch(servers); return nil }
onBatch(servers) == [add |-> servers, err |-> FALSE]

\* the entries of a page that are addresses
NonSentinel(page) == SelectSeq(page, LAMBDA e : e # Sentinel)

\* a page that ends the enumeration: it is empty or carries the sentinel
Terminal(page) ==
    \/ Len(page) = 0
    \/ \E i \in 1..Len(page) : page[i] = Sentinel

\* bp.AddBatch: one task per address, in order
AddBatch(q, servers) ==
    q \o [i \in 1..Len(servers) |-> NewTask(servers[i])]

----------------------------------------------------------------------------
(* The request handler: httpMasterSearch / httpServer *)

Init ==
    /\ proc = "running"
    /\ pc = "request"
    /\ master = "nil"
    /\ sNumServers = 0
    /\ sOutputBuffer = <<>>
    /\ tasks = <<>>
    /\ enumerated = <<>>
    /\ lastEntry = <<>>
    /\ nPages = 0
    /\ nBatches = 0
    /\ masterErr = "none"
    /\ terminated = FALSE
    /\ response = <<"none">>
    /\ pc2 = "idle"
    /\ response2 = <<"none">>
    /\ Try = "tryAndCatch"
    /\ tryLog = <<>>

\* m, err := valve.NewMasterServerQuerier(...); an error is logged only;
\* master = m
newMasterServerQuerier(ok) ==
    /\ proc = "running"
    /\ pc = "request"
    /\ master' = IF ok THEN "client" ELSE "nil"
    /\ pc' = "filter"
    /\ UNCHANGED <<proc, sNumServers, sOutputBuffer, tasks, enumerated,
                   lastEntry, nPages, nBatches, masterErr, terminated, response,
                   pc2, response2, Try, tryLog>>

\* master.FilterAppId(...); master.FilterName(...) / master.FilterGameaddr(...)
\* On a nil master the call faults inside the handler goroutine; net/http
\* recovers a handler's panic and drops the connection.
SetFilters ==
    /\ proc = "running"
    /\ pc = "filter"
    /\ pc' = IF master # "nil" THEN "querier" ELSE "aborted"
    /\ UNCHANGED <<proc, master, sNumServers, sOutputBuffer, tasks, enumerated,
                   lastEntry, nPages, nBatches, masterErr, terminated, response,
                   pc2, response2, Try, tryLog>>

\* newServerQuerier up to the master query: the counter and the buffer are
\* reset, the batch processor is created, the top of the envelope is written
newServerQuerier ==
    /\ proc = "running"
    /\ pc = "querier"
    /\ sNumServers' = 0
    /\ sOutputBuffer' = <<[tok |-> "{"], [tok |-> "data[{"]>>
    /\ tasks' = <<>>
    /\ pc' = "enumerating"
    /\ UNCHANGED <<proc, master, enumerated, lastEntry, nPages, nBatches, masterErr, terminated,
                   response,
                   pc2, response2, Try, tryLog>>

\* master.Query receives one page and hands its addresses to the callback;
\* it goes on to the next page unless the page is terminal or the callback
\* returned an error
QueryPage(page) ==
    /\ proc = "running"
    /\ pc = "enumerating"
    /\ LET r == onBatch(NonSentinel(page)) IN
         /\ tasks' = AddBatch(tasks, r.add)
         /\ IF r.err
            THEN /\ masterErr' = "callback"
                 /\ proc' = "exited"
                 /\ pc' = pc
            ELSE /\ masterErr' = masterErr
                 /\ proc' = proc
                 /\ pc' = IF Terminal(page) THEN "finish" ELSE "enumerating"
    /\ enumerated' = enumerated \o NonSentinel(page)
    /\ lastEntry' = IF Len(page) = 0 THEN <<>> ELSE <<page[Len(page)]>>
    /\ nPages' = nPages + 1
    /\ nBatches' = nBatches + 1
    /\ UNCHANGED <<master, sNumServers, sOutputBuffer, terminated, response,
                   pc2, response2, Try, tryLog>>

\* master.Query fails: log.Printf(...); os.Exit(1)
QueryFail ==
    /\ proc = "running"
    /\ pc = "enumerating"
    /\ masterErr' = "DirectoryError"
    /\ proc' = "exited"
    /\ UNCHANGED <<pc, master, sNumServers, sOutputBuffer, tasks, enumerated,
                   lastEntry, nPages, nBatches, terminated, response,
                   pc2, response2, Try, tryLog>>

\* bp.Finish(): returns when every submitted task has produced its outcome
Finish ==
    /\ proc = "running"
    /\ pc = "finish"
    /\ \A t \in Tasks : tasks[t].pc = "done"
    /\ pc' = "footer"
    /\ UNCHANGED <<proc, master, sNumServers, sOutputBuffer, tasks, enumerated,
                   lastEntry, nPages, nBatches, masterErr, terminated, response,
                   pc2, response2, Try, tryLog>>

\* the bottom of the envelope: "}],", "total":sNumServers, "}"
WriteFooter ==
    /\ proc = "running"
    /\ pc = "footer"
    /\ sOutputBuffer' = sOutputBuffer \o
           <<[tok |-> "}],"], [tok |-> "total", n |-> sNumServers],
             [tok |-> "}"]>>
    /\ pc' = "terminate"
    /\ UNCHANGED <<proc, master, sNumServers, tasks, enumerated, lastEntry, nPages, nBatches,
                   masterErr, terminated, response,
                   pc2, response2, Try, tryLog>>

\* the deferred bp.Terminate() as newServerQuerier returns
Terminate ==
    /\ proc = "running"
    /\ pc = "terminate"
    /\ terminated' = TRUE
    /\ pc' = "respond"
    /\ UNCHANGED <<proc, master, sNumServers, sOutputBuffer, tasks, enumerated,
                   lastEntry, nPages, nBatches, masterErr, response,
                   pc2, response2, Try, tryLog>>

\* a handler that writes the buffer out before the envelope is closed
Respond_beforeFooter ==
    /\ proc = "running"
    /\ pc = "footer"
    /\ response' = sOutputBuffer
    /\ pc' = "responded"
    /\ UNCHANGED <<proc, master, sNumServers, sOutputBuffer, tasks, enumerated,
                   lastEntry, nPages, nBatches, masterErr, terminated,
                   pc2, response2, Try, tryLog>>

\* fmt.Fprintf(w, "%s", sOutputBuffer.String())
Respond ==
    /\ proc = "running"
    /\ pc = "respond"
    /\ response' = sOutputBuffer
    /\ pc' = "responded"
    /\ UNCHANGED <<proc, master, sNumServers, sOutputBuffer, tasks, enumerated,
                   lastEntry, nPages, nBatches, masterErr, terminated,
                   pc2, response2, Try, tryLog>>

----------------------------------------------------------------------------
(* The workers of the batch processor.  A worker's steps are the returns   *)
(* of its blocking calls and, inside addJSON, its accesses to the shared    *)
(* sink: the test of sNumServers with the comma it guards, the two writes   *)
(* of the entry, the load and the store of sNumServers++.  Nothing orders   *)
(* these steps between workers, addJSON takes no lock.  Each WriteString    *)
(* is taken as one indivisible append.                                      *)

\* a pool created one worker too wide
PoolWidth_oneMore == flagJ + 1

\* the width handed to batch.NewBatchProcessor
PoolWidth == flagJ

\* a free worker takes the task at the head of the queue and its callback
\* opens the Server Query Client (no datagram is exchanged yet)
Start(t, res) ==
    /\ proc = "running"
    /\ ~terminated
    /\ t \in Tasks
    /\ tasks[t].pc = "queued"
    /\ \A u \in 1..(t - 1) : tasks[u].pc # "queued"
    /\ Cardinality(InFlight) < PoolWidth
    /\ Deliver(t, CallbackOpen(tasks[t], res))
    /\ UNCHANGED <<pc, master, sNumServers, sOutputBuffer, enumerated,
                   lastEntry, nPages, nBatches, masterErr, terminated, response,
                   pc2, response2, Try, tryLog>>

\* query.QueryInfo returns, within the timeout
Info(t, reply) ==
    /\ proc = "running"
    /\ t \in Tasks
    /\ tasks[t].pc = "info"
    /\ Deliver(t, CallbackInfo(tasks[t], reply))
    /\ UNCHANGED <<pc, master, sNumServers, sOutputBuffer, enumerated,
                   lastEntry, nPages, nBatches, masterErr, terminated, response,
                   pc2, response2, Try, tryLog>>

\* query.QueryPlayers returns, within the timeout
Players(t, reply) ==
    /\ proc = "running"
    /\ t \in Tasks
    /\ tasks[t].pc = "players"
    /\ Deliver(t, CallbackPlayers(tasks[t], reply))
    /\ UNCHANGED <<pc, master, sNumServers, sOutputBuffer, enumerated,
                   lastEntry, nPages, nBatches, masterErr, terminated, response,
                   pc2, response2, Try, tryLog>>

\* addJSON: if sNumServers != 0 { sOutputBuffer.WriteString(",") }
AJComma(t) ==
    /\ proc = "running"
    /\ t \in Tasks
    /\ tasks[t].pc = "aj_comma"
    /\ sOutputBuffer' = IF sNumServers # 0
                        THEN Append(sOutputBuffer, [tok |-> ","])
                        ELSE sOutputBuffer
    /\ tasks' = [tasks EXCEPT ![t].pc = "aj_write"]
    /\ UNCHANGED <<proc, pc, master, sNumServers, enumerated, lastEntry, nPages, nBatches,
                   masterErr, terminated, response,
                   pc2, response2, Try, tryLog>>

\* addJSON: sOutputBuffer.WriteString(fmt.Sprintf("\n\t\"%s\": ", hostAndPort))
\*          sOutputBuffer.WriteString(indented.String())
AJWrite(t) ==
    /\ proc = "running"
    /\ t \in Tasks
    /\ tasks[t].pc = "aj_write"
    /\ sOutputBuffer' = sOutputBuffer \o
           <<[tok |-> "key", k |-> tasks[t].key],
             [tok |-> "val", v |-> Marshal(tasks[t].obj).buf]>>
    /\ tasks' = [tasks EXCEPT ![t].pc = "aj_inc_read"]
    /\ UNCHANGED <<proc, pc, master, sNumServers, enumerated, lastEntry, nPages, nBatches,
                   masterErr, terminated, response,
                   pc2, response2, Try, tryLog>>

\* addJSON: sNumServers++, the load
AJIncRead(t) ==
    /\ proc = "running"
    /\ t \in Tasks
    /\ tasks[t].pc = "aj_inc_read"
    /\ tasks' = [tasks EXCEPT ![t].tmp = sNumServers, ![t].pc = "aj_inc_write"]
    /\ UNCHANGED <<proc, pc, master, sNumServers, sOutputBuffer, enumerated,
                   lastEntry, nPages, nBatches, masterErr, terminated, response,
                   pc2, response2, Try, tryLog>>

\* addJSON: sNumServers++, the store; addJSON and the callback return
AJIncWrite(t) ==
    /\ proc = "running"
    /\ t \in Tasks
    /\ tasks[t].pc = "aj_inc_write"
    /\ sNumServers' = tasks[t].tmp + 1
    /\ tasks' = [tasks EXCEPT ![t] = [CallbackReturn(@) EXCEPT !.pc = "done"]]
    /\ UNCHANGED <<proc, pc, master, sOutputBuffer, enumerated, lastEntry, nPages, nBatches,
                   masterErr, terminated, response,
                   pc2, response2, Try, tryLog>>

\* one step of the worker that runs task t, the servers answering as Spec
\* allows
WorkerStep(t) ==
    \/ \E reply \in InfoReplies : Info(t, reply)
    \/ \E reply \in PlayersReplies : Players(t, reply)
    \/ AJComma(t)
    \/ AJWrite(t)
    \/ AJIncRead(t)
    \/ AJIncWrite(t)

----------------------------------------------------------------------------
(* The specifications *)

\* the page the directory answers with next: k further addresses, then the
\* sentinel if this is the end of the list
FreshPage(k, sent) ==
    [i \in 1..k |-> Len(enumerated) + i] \o (IF sent THEN <<Sentinel>> ELSE <<>>)

Next ==
    \/ \E ok \in BOOLEAN : newMasterServerQuerier(ok)
    \/ SetFilters
    \/ newServerQuerier
    \/ \E k \in 0..MaxPageLen, sent \in BOOLEAN :
          /\ Len(enumerated) + k <= MaxAddrs
          /\ nPages + 1 < MaxPages \/ Terminal(FreshPage(k, sent))
          /\ QueryPage(FreshPage(k, sent))
    \/ QueryFail
    \/ Finish
    \/ WriteFooter
    \/ Terminate
    \/ Respond
    \/ \E t \in 1..MaxAddrs, res \in {"ok"} \cup OpenErrs : Start(t, res)
    \/ \E t \in 1..MaxAddrs : WorkerStep(t)

Spec == Init /\ [][Next]_vars

\* the goroutines are scheduled fairly: the handler and every worker that
\* can take a step eventually take it
FairSpec ==
    /\ Spec
    /\ WF_vars(SetFilters \/ newServerQuerier \/ Finish \/ WriteFooter
               \/ Terminate \/ Respond)
    /\ WF_vars(\E ok \in BOOLEAN : newMasterServerQuerier(ok))
    /\ \A t \in 1..MaxAddrs :
          /\ WF_vars(\E res \in {"ok"} \cup OpenErrs : Start(t, res))
          /\ WF_vars(WorkerStep(t))

\* A directory that lists PoolAddrs servers in one page, none of which
\* answers.  Workers take tasks whenever the pool allows; among the tasks
\* taken, the oldest runs to its end first.
PoolPage == [i \in 1..PoolAddrs |-> i] \o <<Sentinel>>

Oldest(t) == t \in InFlight /\ \A u \in InFlight : t <= u

NextPool ==
    \/ newMasterServerQuerier(TRUE)
    \/ SetFilters
    \/ newServerQuerier
    \/ nPages = 0 /\ QueryPage(PoolPage)
    \/ Finish
    \/ WriteFooter
    \/ Terminate
    \/ Respond
    \/ \E t \in 1..PoolAddrs : Start(t, "ok")
    \/ \E t \in 1..PoolAddrs :
          /\ Oldest(t)
          /\ \/ Info(t, InfoFail("TimeoutError"))
             \/ AJComma(t)
             \/ AJWrite(t)
             \/ AJIncRead(t)
             \/ AJIncWrite(t)

SpecPool == Init /\ [][NextPool]_vars

----------------------------------------------------------------------------
(* A second request.  net/http serves every request in a goroutine of its  *)
(* own, so a second call of httpMasterSearch / httpServer can run at any   *)
(* time, before, during or after the first, on the same globals.  Its      *)
(* directory lists no server: it gets one empty page and has no task.      *)

\* the handler up to newServerQuerier: master = m, the filters are set
Req2_newMasterServerQuerier ==
    /\ proc = "running"
    /\ pc2 = "idle"
    /\ master' = "client2"
    /\ pc2' = "querier"
    /\ UNCHANGED <<proc, pc, sNumServers, sOutputBuffer, tasks, enumerated,
                   lastEntry, nPages, nBatches, masterErr, terminated,
                   response, response2, Try, tryLog>>

\* newServerQuerier up to the master query: sNumServers = 0,
\* sOutputBuffer.Reset(), the top of the envelope
Req2_newServerQuerier ==
    /\ proc = "running"
    /\ pc2 = "querier"
    /\ sNumServers' = 0
    /\ sOutputBuffer' = <<[tok |-> "{"], [tok |-> "data[{"]>>
    /\ pc2' = "enumerating"
    /\ UNCHANGED <<proc, pc, master, tasks, enumerated, lastEntry, nPages,
                   nBatches, masterErr, terminated, response, response2,
                   Try, tryLog>>

\* master.Query gets an empty page, bp.Finish() has nothing to wait for
Req2_QueryAndFinish ==
    /\ proc = "running"
    /\ pc2 = "enumerating"
    /\ pc2' = "footer"
    /\ UNCHANGED <<proc, pc, master, sNumServers, sOutputBuffer, tasks,
                   enumerated, lastEntry, nPages, nBatches, masterErr,
                   terminated, response, response2, Try, tryLog>>

\* the bottom of the envelope; the deferred Terminate of its own pool
Req2_WriteFooter ==
    /\ proc = "running"
    /\ pc2 = "footer"
    /\ sOutputBuffer' = sOutputBuffer \o
           <<[tok |-> "}],"], [tok |-> "total", n |-> sNumServers],
             [tok |-> "}"]>>
    /\ pc2' = "respond"
    /\ UNCHANGED <<proc, pc, master, sNumServers, tasks, enumerated,
                   lastEntry, nPages, nBatches, masterErr, terminated,
                   response, response2, Try, tryLog>>

\* fmt.Fprintf(w, "%s", sOutputBuffer.String())
Req2_Respond ==
    /\ proc = "running"
    /\ pc2 = "respond"
    /\ response2' = sOutputBuffer
    /\ pc2' = "responded"
    /\ UNCHANGED <<proc, pc, master, sNumServers, sOutputBuffer, tasks,
                   enumerated, lastEntry, nPages, nBatches, masterErr,
                   terminated, response, Try, tryLog>>

\* Two requests: the first finds one server, which answers and is empty;
\* the second finds none.
NextTwo ==
    \/ newMasterServerQuerier(TRUE)
    \/ SetFilters
    \/ newServerQuerier
    \/ nPages = 0 /\ QueryPage(<<1, Sentinel>>)
    \/ Finish
    \/ WriteFooter
    \/ Terminate
    \/ Respond
    \/ Start(1, "ok")
    \/ Info(1, InfoOK(0, 0))
    \/ AJComma(1)
    \/ AJWrite(1)
    \/ AJIncRead(1)
    \/ AJIncWrite(1)
    \/ Req2_newMasterServerQuerier
    \/ Req2_newServerQuerier
    \/ Req2_QueryAndFinish
    \/ Req2_WriteFooter
    \/ Req2_Respond

SpecTwo == Init /\ [][NextTwo]_vars

----------------------------------------------------------------------------
(* The visibility byte *)

\* info.Visibility is one byte of the server's reply
Byte == 0..255

\* the protocol's values of the byte
VisPublic == 0
VisPrivate == 1

\* One request that finds one server, which answers QueryInfo with no
\* players and any visibility byte.
NextVis ==
    \/ newMasterServerQuerier(TRUE)
    \/ SetFilters
    \/ newServerQuerier
    \/ nPages = 0 /\ QueryPage(<<1, Sentinel>>)
    \/ Finish
    \/ WriteFooter
    \/ Terminate
    \/ Respond
    \/ Start(1, "ok")
    \/ \E v \in Byte : Info(1, InfoOK(0, v))
    \/ AJComma(1)
    \/ AJWrite(1)
    \/ AJIncRead(1)
    \/ AJIncWrite(1)

SpecVis == Init /\ [][NextVis]_vars

----------------------------------------------------------------------------
(* valve/util.go: the fault-containment policy *)

\* the nil interface value
Nil == [type |-> "nil", text |-> <<>>]

\* error values, told apart by their text
ErrorValues == {[type |-> "error", text |-> <<"e", i>>] : i \in 1..MaxVals}

\* values that are not errors: strings and integers
OtherValues == {[type |-> ty, text |-> <<"v", i>>] :
                    ty \in {"string", "int"}, i \in 1..MaxVals}

\* what a func() error does when called: it returns nil or an error, or it
\* panics with some value, panic(nil) included
Fns == {[kind |-> "return", val |-> v] : v \in {Nil} \cup ErrorValues}
       \cup {[kind |-> "panic", val |-> v] :
                v \in {Nil} \cup ErrorValues \cup OtherValues}

\* the value the runtime hands to recover() after panic(nil) when it does not
\* keep the nil (Go 1.21 and later, GODEBUG panicnil=0)
PanicNilError == [type |-> "error", text |-> <<"runtime.PanicNilError">>]

\* recover(): the value of the panic; for panic(nil) the toolchain decides
\* between nil and a *runtime.PanicNilError
Recover(v, nilKept) == IF v = Nil /\ ~nilKept THEN PanicNilError ELSE v

\* fmt.Errorf("%v", r)
Errorf(r) == [type |-> "error", text |-> <<"%v", r.type, r.text>>]

\* tryAndCatch: outErr = fn(); a recovered value that is not nil replaces it,
\* as it is when it is an error, formatted otherwise
tryAndCatch(fn, nilKept) ==
    IF fn.kind = "return"
    THEN [panics |-> FALSE, err |-> fn.val]
    ELSE LET r == Recover(fn.val, nilKept) IN
         IF r # Nil
         THEN [panics |-> FALSE,
               err |-> IF r.type = "error" THEN r ELSE Errorf(r)]
         ELSE [panics |-> FALSE, err |-> Nil]

\* tryNoCatch: return fn()
tryNoCatch(fn, nilKept) ==
    IF fn.kind = "return"
    THEN [panics |-> FALSE, err |-> fn.val]
    ELSE [panics |-> TRUE, err |-> Nil]

\* Try(fn) under the policy in force
TryCall(fn, nilKept) ==
    /\ Len(tryLog) < MaxTryCalls
    /\ tryLog' = Append(tryLog,
           [policy |-> Try, fn |-> fn,
            out |-> IF Try = "tryAndCatch" THEN tryAndCatch(fn, nilKept)
                    ELSE tryNoCatch(fn, nilKept)])
    /\ UNCHANGED <<proc, pc, master, sNumServers, sOutputBuffer, tasks,
                   enumerated, lastEntry, nPages, nBatches, masterErr,
                   terminated, response, pc2, response2, Try>>

\* var Try = tryAndCatch, "This can be changed to enable panics."
SetTry(policy) ==
    /\ policy # Try
    /\ Try' = policy
    /\ UNCHANGED <<proc, pc, master, sNumServers, sOutputBuffer, tasks,
                   enumerated, lastEntry, nPages, nBatches, masterErr,
                   terminated, response, pc2, response2, tryLog>>

NextTry ==
    \/ \E fn \in Fns, nilKept \in BOOLEAN : TryCall(fn, nilKept)
    \/ \E policy \in {"tryAndCatch", "tryNoCatch"} : SetTry(policy)

SpecTry == Init /\ [][NextTry]_vars

----------------------------------------------------------------------------
(* Properties *)

\* bp.Finish() has returned in this request
FinishReturned == pc \in {"footer", "terminate", "respond", "responded"}

\* the tasks whose outcome has been handed to addJSON and written
Delivered == {t \in Tasks : tasks[t].pc = "done" /\ tasks[t].nAddJSON = 1}

\* the addresses submitted through AddBatch, in order
Submitted == [t \in Tasks |-> tasks[t].addr]

\* C1: every submitted address gets exactly one call of addJSON on every path
\* through the callback (never two, and one by the time its task ends), and
\* once Finish has returned all N submitted addresses have their outcome,
\* N being the number of addresses the directory pages carried.
C1_OneOutcomePerAddress ==
    /\ \A t \in Tasks :
          /\ tasks[t].nAddJSON <= 1
          /\ tasks[t].pc \in AddJSONPcs \cup {"done"} => tasks[t].nAddJSON = 1
    /\ FinishReturned =>
          /\ Len(tasks) = Len(enumerated)
          /\ Delivered = Tasks

\* a request answered after two AddBatch calls, with one address that failed
\* and one that answered
C1_Witness ==
    /\ pc = "responded"
    /\ nBatches >= 2
    /\ Len(tasks) >= 2
    /\ Delivered = Tasks
    /\ \E t, u \in Tasks : tasks[t].fail # "none" /\ tasks[u].fail = "none"

\* C2: no two workers are inside the shared part of addJSON at once.
C2_SinkSerialized ==
    Cardinality({t \in Tasks : tasks[t].pc \in AddJSONPcs}) <= 1

\* the "total" pieces written into the envelope
Totals == {i \in DOMAIN sOutputBuffer : sOutputBuffer[i].tok = "total"}

\* C3: the total written after Finish equals the number of outcomes
\* delivered, which equals the number of addresses submitted.
C3_TotalCountsOutcomes ==
    \A i \in Totals :
        /\ sOutputBuffer[i].n = Cardinality(Delivered)
        /\ sOutputBuffer[i].n = Len(tasks)

\* C4: an address whose open or QueryInfo failed gets an error entry keyed by
\* its address, carrying its address and the text of its error; nothing more
\* is asked of that server; it is not what ends a run; and every other
\* address gets the record built from its own address.
C4_FailureIsData ==
    \A t \in Tasks :
        LET k == tasks[t] IN
        /\ k.fail = "open" => k.nOpen = 0 /\ k.nInfo = 0 /\ k.nPlayers = 0
        /\ k.fail = "info" => k.nInfo = 1 /\ k.nPlayers = 0
        /\ k.fail # "none" =>
              /\ k.nAddJSON = 1
              /\ k.pc # "panic"
              /\ k.key = AddrString(k.addr)
              /\ k.obj = [kind |-> "error", ip |-> AddrString(k.addr),
                          error |-> ErrorText(k.err)]
        /\ k.fail = "none" /\ k.nAddJSON = 1 =>
              /\ k.key = AddrString(k.addr)
              /\ k.obj.kind = "server"
              /\ k.obj.ip = AddrString(k.addr)

\* one address failed at open, another at QueryInfo, and both outcomes are in
\* the answer
C4_Witness ==
    /\ pc = "responded"
    /\ \E t, u \in Delivered :
          /\ tasks[t].fail = "open"
          /\ tasks[u].fail = "info"

\* C5: no fault raised inside a worker task ends the run.
C5_NoWorkerFaultEndsRun == proc # "panicked"

\* C6: a player query is issued (or about to be) for an address only after
\* its QueryInfo succeeded with a player count above zero.
C6_PlayersOnlyWhenPresent ==
    \A t \in Tasks :
        tasks[t].nPlayers > 0 \/ tasks[t].pc = "players" =>
            /\ tasks[t].info = "ok"
            /\ tasks[t].fail = "none"
            /\ tasks[t].playersSeen > 0

\* a server that reported no players has its record delivered without a
\* player query, next to one that was asked for its players
C6_Witness ==
    \E t, u \in Delivered :
        /\ tasks[t].info = "ok" /\ tasks[t].playersSeen = 0
        /\ tasks[t].nPlayers = 0
        /\ tasks[u].nPlayers = 1

\* C7: once master.Query has failed and the handling of the request has
\* ended, the caller has been given a failure answer and the work already
\* handed out has either finished or been terminated through the pool.
C7_DirectoryErrorSurfaced ==
    masterErr # "none" /\ (proc # "running" \/ pc = "responded") =>
        /\ response = <<"failure">>
        /\ terminated \/ \A t \in Tasks : tasks[t].pc = "done"

\* C8: once the enumeration has ended, Finish returns and the request is
\* answered.
C8_RequestCompletes == (pc = "finish") ~> (pc = "responded")

C10_EnumerationForwardsAll ==
    /\ pc = "enumerating" /\ nPages > 0 /\ masterErr = "none"
          => lastEntry \notin {<<>>, <<Sentinel>>}
    /\ pc \in {"finish"} \cup {"footer", "terminate", "respond", "responded"}
          => nPages > 0 /\ lastEntry \in {<<>>, <<Sentinel>>}
    /\ masterErr # "callback"
    /\ nBatches = nPages
    /\ Submitted = enumerated

\* an enumeration of two pages that ended on the sentinel and carried two
\* addresses
C10_Witness ==
    /\ pc = "finish"
    /\ nPages = 2
    /\ lastEntry = <<Sentinel>>
    /\ Len(tasks) = 2

\* C11: under tryAndCatch, a call of Try with a function that returns gives
\* that function's result, and a call with a function that panics, whatever
\* the value, gives an error that is not nil and lets nothing propagate.
C11_TryContainsFaults ==
    \A i \in DOMAIN tryLog :
        LET c == tryLog[i] IN
        c.policy = "tryAndCatch" =>
            /\ ~c.out.panics
            /\ c.fn.kind = "return" => c.out.err = c.fn.val
            /\ c.fn.kind = "panic" => c.out.err # Nil

\* C12: a client is opened at most once per task and closed only after it
\* was opened; a task whose open failed never closes; while a task is at
\* work its client stays open; when the task ends, normally or by a panic
\* that unwinds it, the client it opened has been closed exactly once; so
\* after Finish no client is open.
C12_ClosedExactlyOnce ==
    /\ \A t \in Tasks :
          LET k == tasks[t] IN
          /\ k.nOpen <= 1
          /\ k.nClose <= k.nOpen
          /\ k.fail = "open" => k.nOpen = 0 /\ k.nClose = 0
          /\ k.pc \in {"done", "panic"} => k.nClose = k.nOpen
          /\ k.pc \notin {"queued", "done", "panic"} /\ k.fail # "open"
                => k.nOpen = 1 /\ k.nClose = 0
    /\ FinishReturned => \A t \in Tasks : tasks[t].nClose = tasks[t].nOpen

\* a request answered in which one address failed to open and another had
\* its player query fail after a successful QueryInfo
C12_Witness ==
    /\ pc = "responded"
    /\ \E t, u \in Delivered :
          /\ tasks[t].fail = "open" /\ tasks[t].nClose = 0
          /\ tasks[u].playersFail /\ tasks[u].nOpen = 1 /\ tasks[u].nClose = 1

\* the closing part of the envelope ends the body b
EndsWithFooter(b) ==
    /\ Len(b) >= 3
    /\ b[Len(b) - 2].tok = "}],"
    /\ b[Len(b) - 1].tok = "total"
    /\ b[Len(b)].tok = "}"

\* C13: by the time a further page can be asked for, every page received has
\* been passed to AddBatch with all its addresses; tasks are added only while
\* the handler is enumerating, never once Finish is awaited or has returned;
\* Terminate runs only after Finish has returned, with no task left undone;
\* and the body goes to the HTTP caller only from the position after
\* Terminate, closed by the bottom of the envelope.
C13_StepsInOrder ==
    /\ [](/\ nBatches = nPages
          /\ Submitted = enumerated
          /\ terminated => FinishReturned /\ \A t \in Tasks : tasks[t].pc = "done"
          /\ response # <<"none">> => terminated /\ EndsWithFooter(response))
    /\ [][/\ (nBatches' # nBatches \/ Len(tasks') # Len(tasks))
                => pc = "enumerating" /\ ~terminated
          /\ terminated' # terminated => pc = "terminate"
          /\ response' # response => pc = "respond"]_vars

\* a request of two pages answered in full
C13_Witness ==
    /\ pc = "responded"
    /\ terminated
    /\ nPages >= 2
    /\ Len(tasks) >= 2
    /\ EndsWithFooter(response)

\* the body that answers a request whose tasks are q, served alone: the top
\* of the envelope, one entry per task keyed by its address, a comma between
\* entries, the bottom with the count
RECURSIVE Entries(_, _)
Entries(q, i) ==
    IF i > Len(q) THEN <<>>
    ELSE (IF i > 1 THEN <<[tok |-> ","]>> ELSE <<>>)
         \o <<[tok |-> "key", k |-> AddrString(q[i].addr)],
              [tok |-> "val", v |-> Marshal(q[i].obj).buf]>>
         \o Entries(q, i + 1)

BodyAlone(q) ==
    <<[tok |-> "{"], [tok |-> "data[{"]>> \o Entries(q, 1)
    \o <<[tok |-> "}],"], [tok |-> "total", n |-> Len(q)], [tok |-> "}"]>>

\* C14: each of two requests is answered with the body it would get if
\* served alone, and while a request uses its master client, buffer and
\* counter (from making the client to the end of its enumeration, and on to
\* its answer) the other request does not replace or reset them.
C14_RequestsIsolated ==
    /\ response # <<"none">> => response = BodyAlone(tasks)
    /\ response2 # <<"none">> => response2 = BodyAlone(<<>>)
    /\ pc \in {"filter", "querier", "enumerating"} => master # "client2"
    /\ pc2 \in {"querier", "enumerating"} => master # "client"
    /\ pc \in {"enumerating", "finish", "footer", "terminate", "respond"}
          => pc2 \notin {"enumerating", "footer", "respond"}

\* C15: an address whose QueryInfo reported players and whose QueryPlayers
\* then failed has one call of addJSON, made with the server record of its
\* own address and no roster; it is not marked as failed and does not end
\* the run; and when it is the only address of the request, the counter is 1
\* once its outcome is written.
C15_PlayersFailureKeepsRecord ==
    \A t \in Tasks :
        LET k == tasks[t] IN
        k.playersFail =>
            /\ k.info = "ok" /\ k.playersSeen > 0 /\ k.nPlayers = 1
            /\ k.nAddJSON = 1
            /\ k.fail = "none"
            /\ k.pc # "panic"
            /\ k.key = AddrString(k.addr)
            /\ k.obj = ServerObject(k.addr, InfoOK(k.playersSeen, k.visSeen))
            /\ k.pc = "done" /\ Len(tasks) = 1 => sNumServers = 1

\* the only address of a request had its player query fail, and the answer
\* carries its record
C15_Witness ==
    /\ pc = "responded"
    /\ Len(tasks) = 1
    /\ 1 \in Delivered
    /\ tasks[1].playersFail
    /\ \E i \in 1..Len(response) :
          /\ response[i].tok = "val"
          /\ response[i].v = Marshal(ServerObject(1, InfoOK(MaxPlayers, 0))).buf

\* C16: the handler never leaves the step that applies the filters with an
\* absent master client, i.e. it does not go on after the creation failed.
C16_NoUseOfAbsentMaster ==
    [][pc = "filter" /\ pc' # "filter" => master # "nil"]_vars

\* C17: a record delivered for a server that answered QueryInfo shows
\* "public" for the public byte, "private" for the private byte, and is an
\* error entry for every other byte.
C17_VisibilityClosed ==
    \A t \in Tasks :
        LET k == tasks[t] IN
        k.info = "ok" /\ k.nAddJSON = 1 =>
            /\ k.visSeen = VisPublic =>
                  k.obj.kind = "server" /\ k.obj.visibility = "public"
            /\ k.visSeen = VisPrivate =>
                  k.obj.kind = "server" /\ k.obj.visibility = "private"
            /\ k.visSeen \notin {VisPublic, VisPrivate} => k.obj.kind = "error"

\* the entries of the buffer b: what follows the top of the envelope, up to
\* the closing part when it is there
EntryPart(b) ==
    SubSeq(b, 3, IF EndsWithFooter(b) THEN Len(b) - 3 ELSE Len(b))

\* entries separated by one comma each: key, value, and a comma before every
\* further key
WellFormedEntries(e) ==
    \/ Len(e) = 0
    \/ /\ Len(e) % 3 = 2
       /\ \A i \in 1..Len(e) :
             e[i].tok = CASE i % 3 = 1 -> "key"
                          [] i % 3 = 2 -> "val"
                          [] OTHER -> ","

\* C18: whenever the request has begun its envelope and no delivery is under
\* way, the buffer holds the top of the envelope, then one entry per
\* delivered outcome keyed by its address with exactly one comma between
\* consecutive entries, then at most the closing part.
C18_BufferWellFormed ==
    (pc \in {"enumerating", "finish", "footer", "terminate", "respond",
             "responded"}
     /\ \A t \in Tasks : tasks[t].pc \notin AddJSONPcs) =>
        LET e == EntryPart(sOutputBuffer)
            keys == {i \in 1..Len(e) : e[i].tok = "key"}
            commas == {i \in 1..Len(e) : e[i].tok = ","}
            n == Cardinality({t \in Tasks : tasks[t].pc = "done"
                                            /\ tasks[t].nAddJSON = 1})
        IN  /\ Len(sOutputBuffer) >= 2
            /\ sOutputBuffer[1].tok = "{"
            /\ sOutputBuffer[2].tok = "data[{"
            /\ WellFormedEntries(e)
            /\ Cardinality(keys) = n
            /\ Cardinality(commas) = (IF n = 0 THEN 0 ELSE n - 1)
            /\ \A t \in Tasks :
                  tasks[t].pc = "done" /\ tasks[t].nAddJSON = 1 =>
                      Cardinality({i \in keys :
                                     e[i].k = AddrString(tasks[t].addr)}) = 1

====
